---- MODULE Spec2Model ----
(***************************************************************************)
(* Model of build.py: the LastModifiedManager cache (remote-change         *)
(* detection by Last-Modified header), the chapter -> build variant        *)
(* selection, the download flow and the build loop.                        *)
(*                                                                         *)
(* Python strings that the code takes apart (header values, the git ref)   *)
(* are sequences of one-token strings; strings the code only compares      *)
(* (urls, build variants) are TLA+ strings.                                *)
(***************************************************************************)
EXTENDS Integers, Sequences, FiniteSets, TLC

VARIABLES
    lastModifiedDict,   \* LastModifiedManager.lastModifiedDict: sequence of <<url, value>>, insertion order
    store,              \* content of lastModified.json (a token sequence), or NoFile
    remote,             \* per url: what the server answers now (raw header, no header, unreachable)
    last,               \* the operation that ran last and what it returned
    streak,             \* number of consecutive completed checks of last.url (0..2)
    firstRet,           \* when streak = 2: what the first check of the pair returned
    saved,              \* the mapping that the last write of the file serialized
    savedInRun,         \* TRUE once save has written the file in this behaviour
    pc,                 \* where the script (or the caller of a function) is
    force_download,     \* args.force_download
    files,              \* which of the archives and extraction folders exist on disk
    downloaded,         \* urls whose download and extraction succeeded in this run
    pending,            \* per url: the timestamp fetched when its download last failed, or None
    chapter,            \* args.chapter
    GIT_REF,            \* os.environ.get("GITHUB_REF"): characters, or None
    chapter_name,       \* the chapter name the script settles on
    build_variants,     \* the resolved list of build variants
    working_cargo,      \* whether "cargo -v" ran
    is_windows,         \* sys.platform == "win32"
    invoked             \* the compiler invocations that started, with their exit codes

cacheVars == <<lastModifiedDict, store, remote, last, streak, firstRet, saved, savedInRun>>

flowVars == <<force_download, files, downloaded, pending>>

buildVars == <<chapter, GIT_REF, chapter_name, build_variants, working_cargo, is_windows, invoked>>

vars == <<cacheVars, pc, flowVars, buildVars>>

-----------------------------------------------------------------------------
(* Bounds *)

\* number of distinct timestamp texts a server may report
MaxTs == 2

\* number of pieces a git ref is put together from
MaxPieces == 3

-----------------------------------------------------------------------------
(* Values *)

\* Python's None, as a value no header text and no url equals
None == <<"<None>">>

\* urlopen raised (request could not be completed)
URLError == <<"<URLError>">>

assets_url == "http://07th-mod.com/archive/vanilla.7z"

uabe_url == "http://07th-mod.com/archive/AssetsBundleExtractor_2.2stabled_64bit_with_VC2010.zip"

Urls == {assets_url, uabe_url}

TsText == <<"T1", "T2", "T3", "T4">>

\* the timestamp texts (each one token of a header value)
Timestamps == {TsText[i] : i \in 1..MaxTs}

\* raw Last-Modified header values: a timestamp, bare or padded with whitespace
Headers == {<<t>> : t \in Timestamps} \cup {<<" ", t, " ">> : t \in Timestamps}

\* what a server can answer for one url
RemoteValues == Headers \cup {None, URLError}

-----------------------------------------------------------------------------
(* str.strip *)

RECURSIVE lstrip(_)
lstrip(s) == IF s # <<>> /\ Head(s) = " " THEN lstrip(Tail(s)) ELSE s

RECURSIVE rstrip(_)
rstrip(s) == IF s # <<>> /\ s[Len(s)] = " " THEN rstrip(SubSeq(s, 1, Len(s) - 1)) ELSE s

strip(s) == rstrip(lstrip(s))

-----------------------------------------------------------------------------
(* dict: a sequence of <<key, value>> pairs with distinct keys *)

DictKeys(d) == {d[i][1] : i \in DOMAIN d}

\* dict.get(k): the value, or None
DictGet(d, k) ==
    IF k \in DictKeys(d)
    THEN d[CHOOSE i \in DOMAIN d : d[i][1] = k][2]
    ELSE None

\* d[k] = v: overwrite in place, or insert at the end
DictSet(d, k, v) ==
    IF k \in DictKeys(d)
    THEN [i \in DOMAIN d |-> IF d[i][1] = k THEN <<k, v>> ELSE d[i]]
    ELSE Append(d, <<k, v>>)

\* the mapping a dict denotes, as its graph (Python's dict equality ignores order)
Mapping(d) == {<<k, DictGet(d, k)>> : k \in DictKeys(d)}

-----------------------------------------------------------------------------
(* json.dump / json.load of a flat {str: str} object *)

\* a JSON string literal
JsonStr(s) == <<"str">> \o s

\* json.dump: "{", then "key": "value" members joined by ",", then "}"
RECURSIVE JsonMembers(_)
JsonMembers(d) ==
    IF d = <<>> THEN <<>>
    ELSE <<JsonStr(<<d[1][1]>>), <<":">>, JsonStr(d[1][2])>>
         \o (IF Len(d) > 1 THEN << <<",">> >> ELSE <<>>)
         \o JsonMembers(Tail(d))

JsonDumpMissingLast(d) == << <<"{">> >> \o JsonMembers(SubSeq(d, 1, Len(d) - 1)) \o << <<"}">> >>

JsonDump(d) == << <<"{">> >> \o JsonMembers(d) \o << <<"}">> >>

\* json.load: members are read left to right into a dict
RECURSIVE JsonParseMembers(_, _)
JsonParseMembers(toks, d) ==
    IF toks = <<>> \/ Head(toks) = <<"}">> THEN d
    ELSE IF Head(toks) = <<",">> THEN JsonParseMembers(Tail(toks), d)
    ELSE JsonParseMembers(SubSeq(toks, 4, Len(toks)),
                          DictSet(d, toks[1][2], Tail(toks[3])))

JsonLoad(text) == JsonParseMembers(Tail(text), <<>>)

-----------------------------------------------------------------------------
(* Characters, str.lower, str.split, re.split *)

UpperCase == <<"A", "B", "C", "D", "E", "F", "G", "H", "I", "J", "K", "L", "M",
               "N", "O", "P", "Q", "R", "S", "T", "U", "V", "W", "X", "Y", "Z">>

LowerCase == <<"a", "b", "c", "d", "e", "f", "g", "h", "i", "j", "k", "l", "m",
               "n", "o", "p", "q", "r", "s", "t", "u", "v", "w", "x", "y", "z">>

Digits == {"0", "1", "2", "3", "4", "5", "6", "7", "8", "9"}

Letters == {UpperCase[i] : i \in DOMAIN UpperCase} \cup {LowerCase[i] : i \in DOMAIN LowerCase}

\* the class [\W_] of the pattern: not a word character, or the underscore
IsSeparator(c) == c \notin (Letters \cup Digits) \/ c = "_"

lowerChar(c) ==
    IF \E i \in DOMAIN UpperCase : UpperCase[i] = c
    THEN LowerCase[CHOOSE i \in DOMAIN UpperCase : UpperCase[i] = c]
    ELSE c

\* str.lower
lower(s) == [i \in DOMAIN s |-> lowerChar(s[i])]

\* str.split(sep) for a one-character sep: the pieces between the separators
RECURSIVE SplitAt(_, _, _)
SplitAt(s, sep, cur) ==
    IF s = <<>> THEN <<cur>>
    ELSE IF Head(s) = sep THEN <<cur>> \o SplitAt(Tail(s), sep, <<>>)
    ELSE SplitAt(Tail(s), sep, Append(cur, Head(s)))

split(s, sep) == SplitAt(s, sep, <<>>)

\* re.split("[\W_]", s): a cut at every single separator character, empty
\* pieces kept
RECURSIVE ReSplitAt(_, _)
ReSplitAt(s, cur) ==
    IF s = <<>> THEN <<cur>>
    ELSE IF IsSeparator(Head(s)) THEN <<cur>> \o ReSplitAt(Tail(s), <<>>)
    ELSE ReSplitAt(Tail(s), Append(cur, Head(s)))

re_split(s) == ReSplitAt(s, <<>>)

-----------------------------------------------------------------------------
(* The catalog and the selection of build variants *)

chapter_to_build_variants ==
    <<
    [name |-> "onikakushi",
     variants |-> <<"onikakushi 5.2.2f1 win",
                    "onikakushi 5.2.2f1 unix">>],
    [name |-> "watanagashi",
     variants |-> <<"watanagashi 5.2.2f1 win",
                    "watanagashi 5.2.2f1 unix">>],
    [name |-> "tatarigoroshi",
     variants |-> <<"tatarigoroshi 5.4.0f1 win",
                    "tatarigoroshi 5.4.0f1 unix",
                    "tatarigoroshi 5.3.5f1 win",
                    "tatarigoroshi 5.3.4p1 win",
                    "tatarigoroshi 5.3.4p1 unix">>],
    [name |-> "himatsubushi",
     variants |-> <<"himatsubushi 5.4.1f1 win",
                    "himatsubushi 5.4.1f1 unix">>],
    [name |-> "meakashi",
     variants |-> <<"meakashi 5.5.3p3 win",
                    "meakashi 5.5.3p3 unix",
                    "meakashi 5.5.3p1 win",
                    "meakashi 5.5.3p1 unix">>],
    [name |-> "tsumihoroboshi",
     variants |-> <<"tsumihoroboshi 5.5.3p3 win",
                    "tsumihoroboshi 5.5.3p3 unix">>],
    [name |-> "minagoroshi",
     variants |-> <<"minagoroshi 5.6.7f1 win",
                    "minagoroshi 5.6.7f1 unix">>],
    [name |-> "matsuribayashi",
     variants |-> <<"matsuribayashi 2017.2.5 unix",
                    "matsuribayashi 2017.2.5 unix 51100D6D",
                    "matsuribayashi 2017.2.5 win">>],
    [name |-> "rei",
     variants |-> <<"rei 2019.4.3 win",
                    "rei 2019.4.3 unix">>]
    >>

ChapterNames == {chapter_to_build_variants[i].name : i \in DOMAIN chapter_to_build_variants}

\* the characters of the strings that are compared with tag fragments
CharsOf ==
    [s \in {"all"} \cup ChapterNames |->
        CASE s = "all" -> <<"a", "l", "l">>
          [] s = "onikakushi" -> <<"o", "n", "i", "k", "a", "k", "u", "s", "h", "i">>
          [] s = "watanagashi" -> <<"w", "a", "t", "a", "n", "a", "g", "a", "s", "h", "i">>
          [] s = "tatarigoroshi" -> <<"t", "a", "t", "a", "r", "i", "g", "o", "r", "o", "s", "h", "i">>
          [] s = "himatsubushi" -> <<"h", "i", "m", "a", "t", "s", "u", "b", "u", "s", "h", "i">>
          [] s = "meakashi" -> <<"m", "e", "a", "k", "a", "s", "h", "i">>
          [] s = "tsumihoroboshi" -> <<"t", "s", "u", "m", "i", "h", "o", "r", "o", "b", "o", "s", "h", "i">>
          [] s = "minagoroshi" -> <<"m", "i", "n", "a", "g", "o", "r", "o", "s", "h", "i">>
          [] s = "matsuribayashi" -> <<"m", "a", "t", "s", "u", "r", "i", "b", "a", "y", "a", "s", "h", "i">>
          [] s = "rei" -> <<"r", "e", "i">>
    ]

\* a chapter name that is None
NoChapter == "<None>"

\* chapter_to_build_variants[name]
VariantsOf(name) ==
    chapter_to_build_variants[CHOOSE i \in DOMAIN chapter_to_build_variants :
                                 chapter_to_build_variants[i].name = name].variants

\* the loop of get_build_variants("all"): extend by each chapter's list, in dict order
RECURSIVE ExtendAll(_, _)
ExtendAll(commands, i) ==
    IF i > Len(chapter_to_build_variants) THEN commands
    ELSE ExtendAll(commands \o chapter_to_build_variants[i].variants, i + 1)

get_build_variants_skip_first(selected_chapter) ==
    IF selected_chapter = "all"
    THEN [raised |-> FALSE, value |-> ExtendAll(<<>>, 2)]
    ELSE IF selected_chapter \in ChapterNames
    THEN [raised |-> FALSE, value |-> VariantsOf(selected_chapter)]
    ELSE [raised |-> TRUE, value |-> <<>>]

get_build_variants(selected_chapter) ==
    IF selected_chapter = "all"
    THEN [raised |-> FALSE, value |-> ExtendAll(<<>>, 1)]
    ELSE IF selected_chapter \in ChapterNames
    THEN [raised |-> FALSE, value |-> VariantsOf(selected_chapter)]
    ELSE [raised |-> TRUE, value |-> <<>>]

\* GIT_TAG = GIT_REF.split("/")[-1], or None when GITHUB_REF is not set
GIT_TAG ==
    IF GIT_REF = None THEN None
    ELSE split(GIT_REF, "/")[Len(split(GIT_REF, "/"))]

\* the fragments searched: tag_fragments of line 111
tag_fragments ==
    LET parts == re_split(GIT_REF)
    IN  {lower(parts[i]) : i \in DOMAIN parts}

\* the first chapter name, in dict order, that is among the fragments
FirstChapterIn(fragments) ==
    LET hits == {i \in DOMAIN chapter_to_build_variants :
                    lower(CharsOf[chapter_to_build_variants[i].name]) \in fragments}
    IN  IF hits = {} THEN NoChapter
        ELSE chapter_to_build_variants[CHOOSE i \in hits : \A j \in hits : i <= j].name

get_chapter_name_chapters_first ==
    IF GIT_TAG = None THEN [raised |-> TRUE, value |-> NoChapter]
    ELSE IF FirstChapterIn(tag_fragments) # NoChapter
    THEN [raised |-> FALSE, value |-> FirstChapterIn(tag_fragments)]
    ELSE IF CharsOf["all"] \in tag_fragments
    THEN [raised |-> FALSE, value |-> "all"]
    ELSE [raised |-> FALSE, value |-> NoChapter]

get_chapter_name_from_git_tag ==
    IF GIT_TAG = None THEN [raised |-> TRUE, value |-> NoChapter]
    ELSE IF CharsOf["all"] \in tag_fragments
    THEN [raised |-> FALSE, value |-> "all"]
    ELSE [raised |-> FALSE, value |-> FirstChapterIn(tag_fragments)]

-----------------------------------------------------------------------------
(* LastModifiedManager *)

\* lastModified.json does not exist
NoFile == << <<"<ENOENT>">> >>

\* __init__: empty dict, replaced by the file's content when the file exists
LastModifiedManagerInit(file) ==
    IF file # NoFile THEN JsonLoad(file) ELSE <<>>

\* getRemoteLastModified: urlopen raises, or getheader(...) is None and
\* .strip() raises, or the stripped header value is returned
getRemoteLastModifiedNoneOk(response) ==
    IF response = URLError
    THEN [raised |-> TRUE, value |-> None]
    ELSE [raised |-> FALSE, value |-> IF response = None THEN None ELSE strip(response)]

getRemoteLastModified(response) ==
    IF response = URLError \/ response = None
    THEN [raised |-> TRUE, value |-> None]
    ELSE [raised |-> FALSE, value |-> strip(response)]

\* isRemoteModifiedAndUpdateMemory: [ret, dict, fetched]; ret is "True",
\* "False" or "raised"
isRemoteModifiedNoInsert(d, url, response) ==
    LET got == getRemoteLastModified(response)
        localLastModified == DictGet(d, url)
    IN  IF got.raised
        THEN [ret |-> "raised", dict |-> d, fetched |-> None]
        ELSE IF localLastModified # None /\ localLastModified = got.value
        THEN [ret |-> "False", dict |-> d, fetched |-> got.value]
        ELSE [ret |-> "True",
              dict |-> IF localLastModified = None THEN d ELSE DictSet(d, url, got.value),
              fetched |-> got.value]

isRemoteModifiedIdentityCompare(d, url, response) ==
    LET got == getRemoteLastModified(response)
    IN  IF got.raised
        THEN [ret |-> "raised", dict |-> d, fetched |-> None]
        ELSE [ret |-> "True", dict |-> DictSet(d, url, got.value), fetched |-> got.value]

isRemoteModifiedNoUpdate(d, url, response) ==
    LET got == getRemoteLastModified(response)
        localLastModified == DictGet(d, url)
    IN  IF got.raised
        THEN [ret |-> "raised", dict |-> d, fetched |-> None]
        ELSE IF localLastModified # None /\ localLastModified = got.value
        THEN [ret |-> "False", dict |-> d, fetched |-> got.value]
        ELSE [ret |-> "True", dict |-> d, fetched |-> got.value]

isRemoteModifiedAndUpdateMemory(d, url, response) ==
    LET got == getRemoteLastModified(response)
        remoteLastModified == got.value
        localLastModified == DictGet(d, url)
    IN  IF got.raised
        THEN [ret |-> "raised", dict |-> d, fetched |-> None]
        ELSE IF localLastModified # None /\ localLastModified = remoteLastModified
        THEN [ret |-> "False", dict |-> d, fetched |-> remoteLastModified]
        ELSE [ret |-> "True",
              dict |-> DictSet(d, url, remoteLastModified),
              fetched |-> remoteLastModified]

\* save: the whole dict replaces the file's content
save(d) == JsonDump(d)

-----------------------------------------------------------------------------
(* The cache used through its interface, in any order *)

\* the dicts a run can hold: each url absent or mapped to a stripped timestamp
Dicts ==
    {<<>>}
    \cup {<< <<u, <<t>>>> >> : u \in Urls, t \in Timestamps}
    \cup {<< <<u, <<t>>>>, <<v, <<w>>>> >> :
            u \in Urls, v \in Urls, t \in Timestamps, w \in Timestamps}

ValidDicts == {d \in Dicts : Cardinality(DictKeys(d)) = Len(d)}

NoOp == [op |-> "init", url |-> "", ret |-> "", fetched |-> None]

\* the variables a specification does not use stay at these values
IdleCacheGhosts == streak = 0 /\ firstRet = "" /\ saved = {} /\ savedInRun = FALSE

IdleCache ==
    /\ lastModifiedDict = <<>> /\ store = NoFile /\ last = NoOp
    /\ remote = [u \in Urls |-> URLError]
    /\ IdleCacheGhosts

IdleFlow ==
    /\ force_download = FALSE /\ files = {} /\ downloaded = {}
    /\ pending = [u \in Urls |-> None]

IdleBuild ==
    /\ chapter = "" /\ GIT_REF = None /\ chapter_name = NoChapter
    /\ build_variants = <<>> /\ working_cargo = FALSE /\ is_windows = TRUE
    /\ invoked = <<>>

Init ==
    /\ \/ store = NoFile /\ saved = {}
       \/ \E d \in ValidDicts : store = save(d) /\ saved = Mapping(d)
    /\ savedInRun = FALSE
    /\ lastModifiedDict = LastModifiedManagerInit(store)
    /\ remote \in [Urls -> RemoteValues]
    /\ last = NoOp
    /\ streak = 0
    /\ firstRet = ""
    /\ pc = "cache"
    /\ IdleFlow
    /\ IdleBuild

\* a new process constructs its LastModifiedManager
Load ==
    /\ lastModifiedDict' = LastModifiedManagerInit(store)
    /\ last' = [op |-> "load", url |-> "", ret |-> "", fetched |-> None]
    /\ streak' = 0
    /\ firstRet' = ""
    /\ UNCHANGED <<store, remote, saved, savedInRun, pc, flowVars, buildVars>>

CheckAndFlush(url) ==
    LET r == isRemoteModifiedAndUpdateMemory(lastModifiedDict, url, remote[url])
    IN  /\ lastModifiedDict' = r.dict
        /\ last' = [op |-> "check", url |-> url, ret |-> r.ret, fetched |-> r.fetched]
        /\ streak' = 0
        /\ firstRet' = ""
        /\ store' = save(r.dict)
        /\ UNCHANGED <<remote, saved, savedInRun, pc, flowVars, buildVars>>

Check(url) ==
    LET r == isRemoteModifiedAndUpdateMemory(lastModifiedDict, url, remote[url])
        again == last.op = "check" /\ last.url = url /\ last.ret # "raised"
    IN  /\ lastModifiedDict' = r.dict
        /\ last' = [op |-> "check", url |-> url, ret |-> r.ret, fetched |-> r.fetched]
        /\ streak' = IF r.ret = "raised" THEN 0 ELSE IF again THEN 2 ELSE 1
        /\ firstRet' = IF r.ret # "raised" /\ again THEN last.ret ELSE ""
        /\ UNCHANGED <<store, remote, saved, savedInRun, pc, flowVars, buildVars>>

Save ==
    /\ store' = save(lastModifiedDict)
    /\ saved' = Mapping(lastModifiedDict)
    /\ savedInRun' = TRUE
    /\ last' = [op |-> "save", url |-> "", ret |-> "", fetched |-> None]
    /\ streak' = 0
    /\ firstRet' = ""
    /\ UNCHANGED <<lastModifiedDict, remote, pc, flowVars, buildVars>>

\* the server's answer for a url changes
RemoteChange(url, response) ==
    /\ remote[url] # response
    /\ remote' = [remote EXCEPT ![url] = response]
    /\ last' = [op |-> "remote", url |-> url, ret |-> "", fetched |-> None]
    /\ streak' = 0
    /\ firstRet' = ""
    /\ UNCHANGED <<lastModifiedDict, store, saved, savedInRun, pc, flowVars, buildVars>>

Next ==
    \/ Load
    \/ \E url \in Urls : Check(url)
    \/ Save
    \/ \E url \in Urls, response \in RemoteValues : RemoteChange(url, response)

Spec == Init /\ [][Next]_vars

-----------------------------------------------------------------------------
(* Properties of the cache *)

\* the step is a call of isRemoteModifiedAndUpdateMemory(u) whose fetch succeeded
CheckReturned(u) == last'.op = "check" /\ last'.url = u /\ last'.ret # "raised"

\* C1: when the map has no entry for u, or an entry other than the fetched
\* timestamp, the check returns True and afterwards the entry for u is the
\* fetched timestamp.
C1_ChangedIsRecorded ==
    [][\A u \in Urls :
        (CheckReturned(u) /\ DictGet(lastModifiedDict, u) # last'.fetched)
        => /\ last'.ret = "True"
           /\ DictGet(lastModifiedDict', u) = last'.fetched
           /\ last'.fetched = strip(remote[u])]_vars

\* a check of a url the map did not hold has returned True and inserted it
\* next to another url's entry, and a check has overwritten an older entry
C1_Witness ==
    /\ last.op = "check" /\ last.ret = "True"
    /\ Len(lastModifiedDict) = 2
    /\ DictGet(lastModifiedDict, last.url) = last.fetched
    /\ <<last.url, last.fetched>> \notin saved

\* C2: when the entry for u already equals the fetched timestamp, the check
\* returns False and leaves the whole in-memory map as it was.
C2_UnchangedIsFrame ==
    [][\A u \in Urls :
        (CheckReturned(u) /\ DictGet(lastModifiedDict, u) = last'.fetched)
        => /\ last'.ret = "False"
           /\ lastModifiedDict' = lastModifiedDict]_vars

\* a check has returned False on a map of two entries, from a padded header
C2_Witness ==
    /\ last.op = "check" /\ last.ret = "False"
    /\ Len(lastModifiedDict) = 2
    /\ remote[last.url] # last.fetched
    /\ DictGet(lastModifiedDict, last.url) = last.fetched

\* C3: of two checks of the same url in a row, with no other operation and
\* no change of the remote between them, the second returns False.
C3_SecondCheckFalse == streak = 2 => last.ret = "False"

\* two checks in a row, the first of which returned True
C3_Witness == streak = 2 /\ firstRet = "True" /\ last.ret = "False"

\* C4: when the request fails or the Last-Modified header is absent, the
\* check raises (returns neither True nor False) and the in-memory map is
\* left unchanged.
C4_FetchFailureIsFrame ==
    [][\A u \in Urls :
        (last'.op = "check" /\ last'.url = u /\ remote[u] \in {None, URLError})
        => /\ last'.ret = "raised"
           /\ lastModifiedDict' = lastModifiedDict]_vars

\* a check has raised because the header was absent, for a url not in the map
C4_Witness ==
    /\ last.op = "check" /\ last.ret = "raised"
    /\ remote[last.url] = None
    /\ last.url \notin DictKeys(lastModifiedDict)

\* C5: a load yields the mapping that the last save wrote, and the empty
\* mapping when the file does not exist.
C5_SaveLoadRoundTrip ==
    last.op = "load" =>
        /\ Mapping(lastModifiedDict) = saved
        /\ Cardinality(DictKeys(lastModifiedDict)) = Len(lastModifiedDict)
        /\ store = NoFile => lastModifiedDict = <<>>

\* a load has read back two entries that a save of this behaviour wrote
C5_Witness ==
    /\ last.op = "load" /\ savedInRun
    /\ Len(lastModifiedDict) = 2
    /\ lastModifiedDict[1][2] # lastModifiedDict[2][2]

\* C6: only save changes the file; a load or a check, whatever it returns,
\* leaves the file as it was, so that the file still holds the mapping of
\* the last save.
C6_OnlySaveWrites ==
    [][/\ last'.op # "save" => store' = store
       /\ Mapping(LastModifiedManagerInit(store')) = saved']_vars

\* a check has changed the in-memory map and the file does not have the change
C6_Witness ==
    /\ last.op = "check" /\ last.ret = "True" /\ savedInRun
    /\ Mapping(lastModifiedDict) # saved
    /\ Mapping(LastModifiedManagerInit(store)) = saved

-----------------------------------------------------------------------------
(* The two selection functions, called on their own *)

\* the pieces git refs are put together from: words in either case, a
\* chapter name, a letter that glues to its neighbours, and separators
Pieces ==
    {<<"r", "e", "f", "s", "/", "t", "a", "g", "s", "/">>,
     <<"a", "l", "l">>,
     <<"A", "l", "l">>,
     <<"r", "e", "i">>,
     <<"O", "n", "i", "k", "a", "k", "u", "s", "h", "i">>,
     <<"x">>,
     <<"-">>,
     <<"_">>,
     <<"/">>,
     <<".">>}

RECURSIVE RefsOf(_)
RefsOf(n) ==
    IF n = 0 THEN {<<>>}
    ELSE {r \o q : r \in RefsOf(n - 1), q \in Pieces} \cup RefsOf(n - 1)

\* the values of GITHUB_REF tried: up to MaxPieces pieces
Refs == RefsOf(MaxPieces)

\* the selection tokens tried: "all", every chapter, and strings that are neither
Tokens ==
    {"all", "github_actions", "ALL", "", "Onikakushi", "onikakushi 5.2.2f1 win", "higurashi"}
    \cup ChapterNames

InitResolve ==
    /\ \/ pc = "token" /\ chapter \in Tokens /\ GIT_REF = None
       \/ pc = "tag" /\ chapter = "github_actions" /\ GIT_REF \in Refs \cup {None}
    /\ chapter_name = NoChapter
    /\ build_variants = <<>>
    /\ working_cargo = FALSE /\ is_windows = TRUE /\ invoked = <<>>
    /\ IdleCache
    /\ IdleFlow

CallGetBuildVariants ==
    /\ pc = "token"
    /\ LET r == get_build_variants(chapter)
       IN  /\ build_variants' = r.value
           /\ pc' = IF r.raised THEN "token_raised" ELSE "token_returned"
    /\ UNCHANGED <<cacheVars, flowVars, chapter, GIT_REF, chapter_name,
                   working_cargo, is_windows, invoked>>

CallGetChapterName ==
    /\ pc = "tag"
    /\ LET r == get_chapter_name_from_git_tag
       IN  /\ chapter_name' = r.value
           /\ pc' = IF r.raised THEN "tag_raised" ELSE "tag_returned"
    /\ UNCHANGED <<cacheVars, flowVars, chapter, GIT_REF, build_variants,
                   working_cargo, is_windows, invoked>>

NextResolve ==
    \/ CallGetBuildVariants
    \/ CallGetChapterName

SpecResolve == InitResolve /\ [][NextResolve]_vars

-----------------------------------------------------------------------------
(* Properties of the selection functions *)

\* the number of variants declared for the chapters before the i-th
RECURSIVE VariantsBefore(_)
VariantsBefore(i) ==
    IF i <= 1 THEN 0
    ELSE VariantsBefore(i - 1) + Len(chapter_to_build_variants[i - 1].variants)

\* C7: get_build_variants("all") is the concatenation of every chapter's
\* list in declaration order (its length the sum of the lengths); for a
\* chapter name it is that chapter's declared, non-empty list; for any other
\* string it raises and returns no variants.
C7_ResolveSelection ==
    pc \in {"token_returned", "token_raised"} =>
        IF chapter = "all"
        THEN /\ pc = "token_returned"
             /\ Len(build_variants) = VariantsBefore(Len(chapter_to_build_variants) + 1)
             /\ \A i \in DOMAIN chapter_to_build_variants :
                    \A j \in DOMAIN chapter_to_build_variants[i].variants :
                        build_variants[VariantsBefore(i) + j] =
                            chapter_to_build_variants[i].variants[j]
        ELSE IF \E i \in DOMAIN chapter_to_build_variants :
                    chapter_to_build_variants[i].name = chapter
        THEN /\ pc = "token_returned"
             /\ build_variants # <<>>
             /\ \E i \in DOMAIN chapter_to_build_variants :
                    /\ chapter_to_build_variants[i].name = chapter
                    /\ build_variants = chapter_to_build_variants[i].variants
        ELSE pc = "token_raised" /\ build_variants = <<>>

\* "all" has been resolved to the 24 variants of the nine chapters
C7_Witness ==
    /\ pc = "token_returned" /\ chapter = "all"
    /\ Len(build_variants) = 24
    /\ build_variants[1] = "onikakushi 5.2.2f1 win"
    /\ build_variants[24] = "rei 2019.4.3 unix"

\* s[i..j] is a maximal run of characters of s that holds no separator
IsFragmentAt(s, i, j) ==
    /\ i <= j
    /\ \A k \in i..j : ~IsSeparator(s[k])
    /\ i = 1 \/ IsSeparator(s[i - 1])
    /\ j = Len(s) \/ IsSeparator(s[j + 1])

\* word (lowercase characters) is a fragment of s, whatever its case in s
HasFragment(s, word) ==
    \E i \in DOMAIN s : \E j \in DOMAIN s :
        /\ IsFragmentAt(s, i, j)
        /\ j - i + 1 = Len(word)
        /\ \A k \in 1..Len(word) : lowerChar(s[i + k - 1]) = word[k]

\* C8: with the ref set, get_chapter_name_from_git_tag returns "all" when
\* "all" is a fragment, even next to chapter names; otherwise the first
\* chapter in declaration order whose name is a fragment; otherwise None,
\* and it does not raise.
C8_ResolveFromTag ==
    (pc \in {"tag_returned", "tag_raised"} /\ GIT_REF # None) =>
        /\ pc = "tag_returned"
        /\ IF HasFragment(GIT_REF, CharsOf["all"])
           THEN chapter_name = "all"
           ELSE IF \E n \in ChapterNames : HasFragment(GIT_REF, CharsOf[n])
           THEN \E i \in DOMAIN chapter_to_build_variants :
                    /\ chapter_name = chapter_to_build_variants[i].name
                    /\ HasFragment(GIT_REF, CharsOf[chapter_name])
                    /\ \A j \in 1..(i - 1) :
                         ~HasFragment(GIT_REF, CharsOf[chapter_to_build_variants[j].name])
           ELSE chapter_name = NoChapter

\* "all" was returned for a ref that also names a chapter
C8_Witness ==
    /\ pc = "tag_returned" /\ chapter_name = "all"
    /\ HasFragment(GIT_REF, CharsOf["rei"])

\* the first chapter in declaration order was returned for a ref naming two
C8_WitnessOrder ==
    /\ pc = "tag_returned" /\ chapter_name = "onikakushi"
    /\ HasFragment(GIT_REF, CharsOf["rei"])

\* None was returned, without raising, for a ref that has "reix" but no chapter
C8_WitnessAbsent ==
    /\ pc = "tag_returned" /\ chapter_name = NoChapter
    /\ Len(GIT_REF) > 3

-----------------------------------------------------------------------------
(* The script from the parsed arguments to the build loop *)

\* how a child process ends: it could not be started (OSError), or it
\* exited with a return code
NotStarted == [started |-> FALSE, retcode |-> 1]

Exited(retcode) == [started |-> TRUE, retcode |-> retcode]

\* what subprocess.call(args, shell=is_windows()) can do. A command given
\* as one string is, without a shell, the name of the program to execute,
\* and no program has such a name.
ProcessOutcomes(argsIsString) ==
    IF is_windows THEN {Exited(0), Exited(1)}
    ELSE IF argsIsString THEN {NotStarted}
    ELSE {Exited(0), Exited(1), NotStarted}

\* call: raises when the process does not start or its retcode is not 0
call_ignores_retcode(outcome) == [raised |-> ~outcome.started]

call(outcome) == [raised |-> ~outcome.started \/ outcome.retcode # 0]

\* argparse's choices for the chapter argument
ArgChoices == {"all", "github_actions"} \cup ChapterNames

\* the refs the script is run with
ScriptRefs == RefsOf(MaxPieces - 1)

InitBuild ==
    /\ pc = "start"
    /\ chapter \in ArgChoices
    /\ GIT_REF \in (IF chapter = "github_actions" THEN ScriptRefs \cup {None} ELSE {None})
    /\ is_windows \in BOOLEAN
    /\ chapter_name = NoChapter
    /\ build_variants = <<>>
    /\ working_cargo = FALSE
    /\ invoked = <<>>
    /\ IdleCache
    /\ IdleFlow

\* lines 195-202: the chapter name is the argument, or comes from the git ref
ResolveChapter ==
    /\ pc = "start"
    /\ IF chapter = "github_actions"
       THEN LET r == get_chapter_name_from_git_tag
            IN  /\ chapter_name' = r.value
                /\ pc' = IF r.raised THEN "raised"
                         ELSE IF r.value = NoChapter THEN "exit0"
                         ELSE "variants"
       ELSE chapter_name' = chapter /\ pc' = "variants"
    /\ UNCHANGED <<cacheVars, flowVars, chapter, GIT_REF, build_variants,
                   working_cargo, is_windows, invoked>>

\* line 205
GetBuildVariants ==
    /\ pc = "variants"
    /\ LET r == get_build_variants(chapter_name)
       IN  /\ build_variants' = r.value
           /\ pc' = IF r.raised THEN "raised" ELSE "pip"
    /\ UNCHANGED <<cacheVars, flowVars, chapter, GIT_REF, chapter_name,
                   working_cargo, is_windows, invoked>>

\* line 210: pip install
InstallDependencies(outcome) ==
    /\ pc = "pip"
    /\ pc' = IF call(outcome).raised THEN "raised" ELSE "downloads"
    /\ UNCHANGED <<cacheVars, flowVars, buildVars>>

\* lines 212-258: the two downloads (modelled step by step in SpecDownload)
\* end normally or raise
DownloadArchives(ok) ==
    /\ pc = "downloads"
    /\ pc' = IF ok THEN "cargo" ELSE "raised"
    /\ UNCHANGED <<cacheVars, flowVars, buildVars>>

\* lines 262-273: "cargo -v" runs, or the compiler binary is downloaded
ProbeCargo(cargoRuns, outcome) ==
    /\ pc = "cargo"
    /\ cargoRuns => is_windows
    /\ working_cargo' = cargoRuns
    /\ pc' = IF ~cargoRuns /\ call(outcome).raised THEN "raised" ELSE "build"
    /\ UNCHANGED <<cacheVars, flowVars, chapter, GIT_REF, chapter_name,
                   build_variants, is_windows, invoked>>

\* lines 276-281: one iteration of the loop, for the next command of the list
BuildVariant(outcome) ==
    /\ pc = "build"
    /\ Len(invoked) < Len(build_variants)
    /\ LET command == build_variants[Len(invoked) + 1]
           program == IF working_cargo THEN "cargo run" ELSE "ui-compiler.exe"
       IN  IF outcome.started
           THEN /\ invoked' = Append(invoked, [program |-> program,
                                               command |-> command,
                                               retcode |-> outcome.retcode])
                /\ pc' = IF call(outcome).raised THEN "raised" ELSE "build"
           ELSE /\ invoked' = invoked
                /\ pc' = "raised"
    /\ UNCHANGED <<cacheVars, flowVars, chapter, GIT_REF, chapter_name,
                   build_variants, working_cargo, is_windows>>

\* the loop is exhausted and the script ends
Finish ==
    /\ pc = "build"
    /\ Len(invoked) = Len(build_variants)
    /\ pc' = "done"
    /\ UNCHANGED <<cacheVars, flowVars, buildVars>>

NextBuild ==
    \/ ResolveChapter
    \/ GetBuildVariants
    \/ \E outcome \in ProcessOutcomes(FALSE) : InstallDependencies(outcome)
    \/ \E ok \in BOOLEAN : DownloadArchives(ok)
    \/ \E cargoRuns \in BOOLEAN, outcome \in ProcessOutcomes(FALSE) :
            ProbeCargo(cargoRuns, outcome)
    \/ \E outcome \in ProcessOutcomes(TRUE) : BuildVariant(outcome)
    \/ Finish

SpecBuild == InitBuild /\ [][NextBuild]_vars

\* C9: the compiler is invoked once per variant in list order; an invocation
\* starts only after all earlier ones exited with 0; a non-zero exit fails
\* the run and nothing is invoked after it; a run that ends normally has
\* invoked every variant.
C9_BuildLoopInOrder ==
    /\ Len(invoked) <= Len(build_variants)
    /\ \A i \in DOMAIN invoked :
        /\ invoked[i].command = build_variants[i]
        /\ invoked[i].program = IF working_cargo THEN "cargo run" ELSE "ui-compiler.exe"
        /\ i < Len(invoked) => invoked[i].retcode = 0
        /\ invoked[i].retcode # 0 => pc = "raised"
    /\ pc = "done" => Len(invoked) = Len(build_variants)

\* the third of five invocations exited with 1 and the run has failed
C9_Witness ==
    /\ pc = "raised"
    /\ Len(build_variants) = 5
    /\ Len(invoked) = 3
    /\ invoked[2].retcode = 0
    /\ invoked[3].retcode = 1

\* a run for "all" has ended normally after 24 invocations
C9_WitnessDone == pc = "done" /\ Len(invoked) = 24

-----------------------------------------------------------------------------
(* The download flow, run after run *)

vanilla_archive == "vanilla.7z"

vanilla_folder_path == "assets/vanilla"

uabe_archive == "AssetsBundleExtractor_2.2stabled_64bit_with_VC2010.zip"

uabe_folder == "64bit"

Paths == {vanilla_archive, vanilla_folder_path, uabe_archive, uabe_folder}

\* lines 217 and 237: the folder is there and the archive is not
fully_extracted(folder, archive) == folder \in files /\ archive \notin files

\* the condition of lines 218 and 238
needs_download_only_if_missing(modified, force, extracted) ==
    (modified /\ ~extracted) \/ force

needs_download(modified, force, extracted) ==
    modified \/ force \/ ~extracted

\* what the two servers answer in this specification
FlowAnswers == {<<t>> : t \in Timestamps} \cup {URLError}

\* the dict's entry for u as the file has it
Entry(file, u) == DictGet(LastModifiedManagerInit(file), u)

InitDownload ==
    /\ pc = "start"
    /\ store \in {NoFile} \cup {save(d) : d \in ValidDicts}
    /\ lastModifiedDict = LastModifiedManagerInit(store)
    /\ remote \in [Urls -> FlowAnswers]
    /\ last = NoOp
    /\ force_download \in BOOLEAN
    /\ files \in SUBSET Paths
    /\ downloaded = {}
    /\ pending = [u \in Urls |-> None]
    /\ IdleCacheGhosts
    /\ IdleBuild

\* lines 194-210: chapter resolution and pip install end normally, raise, or exit(0)
Prelude(outcome) ==
    /\ pc = "start"
    /\ pc' = IF outcome = "ok" THEN "vanilla" ELSE outcome
    /\ UNCHANGED <<cacheVars, flowVars, buildVars>>

\* the if-condition of a download step: the check (which updates the dict)
\* and the choice between downloading and skipping
CheckStep(url, archive, folder, here, fetch, skip) ==
    /\ pc = here
    /\ LET r == isRemoteModifiedAndUpdateMemory(lastModifiedDict, url, remote[url])
       IN  /\ lastModifiedDict' = r.dict
           /\ last' = [op |-> "check", url |-> url, ret |-> r.ret, fetched |-> r.fetched]
           /\ pc' = IF r.ret = "raised" THEN "raised"
                    ELSE IF needs_download(r.ret = "True", force_download,
                                           fully_extracted(folder, archive))
                    THEN fetch
                    ELSE skip
    /\ UNCHANGED <<store, remote, streak, firstRet, saved, savedInRun, flowVars, buildVars>>

\* the body of a download step up to the removal of the archive: old
\* archive and folder are removed, then curl and 7z run; a failed curl may
\* leave a partial archive, a failed 7z leaves the archive and may leave a
\* partial folder
FetchStep(url, archive, folder, here, then, result, leftover) ==
    /\ pc = here
    /\ LET cleared == files \ {archive, folder}
       IN  CASE result = "ok" ->
                    /\ files' = cleared \cup {folder}
                    /\ downloaded' = downloaded \cup {url}
                    /\ pending' = [pending EXCEPT ![url] = None]
                    /\ pc' = then
             [] result = "download_failed" ->
                    /\ files' = IF leftover THEN cleared \cup {archive} ELSE cleared
                    /\ downloaded' = downloaded
                    /\ pending' = IF last.ret = "True"
                                  THEN [pending EXCEPT ![url] = last.fetched]
                                  ELSE pending
                    /\ pc' = "raised"
             [] result = "extract_failed" ->
                    /\ files' = IF leftover THEN cleared \cup {archive, folder}
                                ELSE cleared \cup {archive}
                    /\ downloaded' = downloaded
                    /\ pending' = IF last.ret = "True"
                                  THEN [pending EXCEPT ![url] = last.fetched]
                                  ELSE pending
                    /\ pc' = "raised"
    /\ UNCHANGED <<cacheVars, force_download, buildVars>>

\* lastModifiedManager.save() at the end of a download step
SaveStep(here, then) ==
    /\ pc = here
    /\ store' = save(lastModifiedDict)
    /\ pc' = then
    /\ UNCHANGED <<lastModifiedDict, remote, last, streak, firstRet, saved, savedInRun,
                   flowVars, buildVars>>

FetchResults == {"ok", "download_failed", "extract_failed"}

\* lines 217-218
VanillaCheck ==
    CheckStep(assets_url, vanilla_archive, vanilla_folder_path,
              "vanilla", "vanilla_fetch", "uabe")

\* lines 219-228
VanillaFetch(result, leftover) ==
    FetchStep(assets_url, vanilla_archive, vanilla_folder_path,
              "vanilla_fetch", "vanilla_save", result, leftover)

\* line 229
VanillaSave == SaveStep("vanilla_save", "uabe")

\* lines 237-238
UabeCheck ==
    CheckStep(uabe_url, uabe_archive, uabe_folder, "uabe", "uabe_fetch", "rest")

\* lines 239-250
UabeFetch(result, leftover) ==
    FetchStep(uabe_url, uabe_archive, uabe_folder,
              "uabe_fetch", "uabe_save", result, leftover)

\* line 251
UabeSave == SaveStep("uabe_save", "rest")

\* lines 256-281: the rest of the script ends normally or raises
RestOfScript(ok) ==
    /\ pc = "rest"
    /\ pc' = IF ok THEN "done" ELSE "raised"
    /\ UNCHANGED <<cacheVars, flowVars, buildVars>>

Ended == pc \in {"done", "raised", "exit0"}

\* the script is started again: a new LastModifiedManager reads the file
NewRun(force) ==
    /\ Ended
    /\ pc' = "start"
    /\ lastModifiedDict' = LastModifiedManagerInit(store)
    /\ last' = [op |-> "load", url |-> "", ret |-> "", fetched |-> None]
    /\ force_download' = force
    /\ downloaded' = {}
    /\ UNCHANGED <<store, remote, streak, firstRet, saved, savedInRun, files, pending,
                   buildVars>>

\* between two runs a server comes to answer something else (a run asks
\* each server once, so a change during a run is seen like one after it or
\* before it)
ServerUpdate(url, response) ==
    /\ Ended
    /\ remote[url] # response
    /\ remote' = [remote EXCEPT ![url] = response]
    /\ UNCHANGED <<lastModifiedDict, store, last, streak, firstRet, saved, savedInRun,
                   pc, flowVars, buildVars>>

NextDownload ==
    \/ \E outcome \in {"ok", "raised", "exit0"} : Prelude(outcome)
    \/ VanillaCheck
    \/ \E result \in FetchResults, leftover \in BOOLEAN : VanillaFetch(result, leftover)
    \/ VanillaSave
    \/ UabeCheck
    \/ \E result \in FetchResults, leftover \in BOOLEAN : UabeFetch(result, leftover)
    \/ UabeSave
    \/ \E ok \in BOOLEAN : RestOfScript(ok)
    \/ \E force \in BOOLEAN : NewRun(force)
    \/ \E url \in Urls, response \in FlowAnswers : ServerUpdate(url, response)

SpecDownload == InitDownload /\ [][NextDownload]_vars

\* the url of the download step the script is in
StepUrl == IF pc \in {"vanilla", "vanilla_fetch", "vanilla_save"} THEN assets_url ELSE uabe_url

\* C10: the file is written only by the save that follows a successful
\* download and extraction; each entry a write stores is the entry the file
\* had, or the timestamp fetched in this run for a url whose download and
\* extraction succeeded; a failed download or extraction of a url whose
\* check returned True ends the run with the file unchanged and without the
\* fetched timestamp for that url; and the next check of that url, the
\* remote answering the same, returns True again.
C10_StoreOnlyAfterSuccess ==
    /\ [][store' # store =>
            /\ pc \in {"vanilla_save", "uabe_save"}
            /\ StepUrl \in downloaded]_vars
    /\ [][\A u \in Urls :
            \/ Entry(store', u) = Entry(store, u)
            \/ u \in downloaded /\ Entry(store', u) = strip(remote[u])]_vars
    /\ [][(pc \in {"vanilla_fetch", "uabe_fetch"} /\ pc' = "raised" /\ last.ret = "True") =>
            /\ store' = store
            /\ StepUrl \notin downloaded'
            /\ pending'[StepUrl] = last.fetched
            /\ Entry(store', StepUrl) # last.fetched]_vars
    /\ [][(pc \in {"vanilla", "uabe"} /\ last'.op = "check" /\ last'.ret # "raised"
           /\ pending[StepUrl] = last'.fetched) =>
            last'.ret = "True"]_vars
    /\ [](\A u \in Urls : pending[u] # None => Entry(store, u) # pending[u])

\* in a run after one whose vanilla download failed, the check of the
\* vanilla url has returned True again for the same remote timestamp
C10_Witness ==
    /\ pc = "vanilla_fetch"
    /\ last.op = "check" /\ last.url = assets_url /\ last.ret = "True"
    /\ pending[assets_url] = last.fetched
    /\ Entry(store, assets_url) \notin {None, last.fetched}

\* the file was written after the UABE download while the vanilla step was skipped
C10_WitnessSkip ==
    /\ pc = "rest"
    /\ downloaded = {uabe_url}
    /\ Entry(store, uabe_url) = strip(remote[uabe_url])
    /\ Entry(store, assets_url) = strip(remote[assets_url])

====
